---- MODULE Spec2Model ----
(***************************************************************************)
(* FastAPIMCPServer (src/model_context_protocol/fastapi.py): the tool      *)
(* registry, the schema derived from a handler's signature, the discovery  *)
(* endpoint and the per-tool POST endpoints, with the one tool of          *)
(* src/app.py among the handlers.                                          *)
(***************************************************************************)
EXTENDS Integers, Sequences, FiniteSets, TLC

VARIABLES
  base_path,  \* self._base_path
  tools,      \* self._tools: insertion-ordered dict, as the sequence of its values
  router,     \* self._router.routes
  app,        \* the routes of self._app
  attempts,   \* history: every call of the decorator, with its outcome
  request,    \* the last request served
  response,   \* its response
  call,       \* the handler invocation it caused, if any
  pending,    \* a call of call_tool suspended at its await
  discovered, \* history: the body of the last discovery response since the last registration
  pc,         \* per thread: the position of its in-flight registration
  iter        \* the in-flight iteration of list_tools over self._tools.values()

vars == <<base_path, tools, router, app, attempts, request, response, call,
          pending, discovered, pc, iter>>

(***************************************************************************)
(* Bounds.                                                                 *)
(***************************************************************************)
MaxAttempts == 2
MaxTools == 2
NThreads == 2

(***************************************************************************)
(* JSON values and Python values: a tag and the literal's text.            *)
(***************************************************************************)
JNull == [t |-> "null", v |-> "null"]
JInt(s) == [t |-> "int", v |-> s]
JStr(s) == [t |-> "str", v |-> s]

\* The strings that int() accepts, with their value.
IntTexts == {"5", "50", "250"}
IntOf(s) == CASE s = "5" -> 5 [] s = "50" -> 50 [] s = "250" -> 250 [] OTHER -> 0

Values == {JNull, JInt("5"), JInt("250"), JStr("5"), JStr("hi")}

EmptyDict == <<>>

(***************************************************************************)
(* Sequence helpers.                                                       *)
(***************************************************************************)
Range(s) == {s[i] : i \in 1..Len(s)}

(***************************************************************************)
(* Handlers: what inspect.signature reports of each, and what it does.     *)
(***************************************************************************)
Param(n, k, a, d, dv) ==
  [name |-> n, kind |-> k, ann |-> a, hasDefault |-> d, default |-> dv]

POK == "POSITIONAL_OR_KEYWORD"
PO == "POSITIONAL_ONLY"
KO == "KEYWORD_ONLY"
VARP == "VAR_POSITIONAL"
VARK == "VAR_KEYWORD"

\* ann is what inspect.get_annotations gives of the parameter: "" when it has
\* no annotation, a type ("int") when the handler's module evaluates its
\* annotations, and the annotation's source text, quoted ("'int'"), when the
\* module has from __future__ import annotations, as src/app.py has;
\* requisitions is the handler of src/app.py defined in a module without it
Signature(func) ==
  CASE func = "echo" -> <<Param("x", POK, "str", FALSE, JNull)>>
    [] func = "list_purchase_requisitions" ->
         << Param("top", POK, "'int'", TRUE, JInt("50")),
            Param("select", POK, "'Optional[str]'", TRUE, JNull),
            Param("filter", POK, "'Optional[str]'", TRUE, JNull) >>
    [] func = "requisitions" ->
         << Param("top", POK, "int", TRUE, JInt("50")),
            Param("select", POK, "Optional[str]", TRUE, JNull),
            Param("filter", POK, "Optional[str]", TRUE, JNull) >>
    [] func = "pair" ->
         << Param("a", POK, "int", FALSE, JNull),
            Param("b", POK, "", FALSE, JNull),
            Param("c", KO, "str", TRUE, JStr("d")) >>
    [] func = "legacy" -> <<Param("p", PO, "int", FALSE, JNull)>>
    [] func = "unavailable" -> <<>>
    [] func = "broken" -> <<Param("x", POK, "", FALSE, JNull)>>
    [] func = "crash" -> <<>>
    [] func = "collect" -> <<Param("args", VARP, "", FALSE, JNull)>>
    [] func = "options" ->
         << Param("x", POK, "str", FALSE, JNull),
            Param("kwargs", VARK, "", FALSE, JNull) >>
    [] OTHER -> <<>>

IsAsync(func) == func \in {"list_purchase_requisitions", "requisitions", "broken"}

Handlers == {"echo", "list_purchase_requisitions", "requisitions", "pair",
             "legacy", "unavailable", "broken", "crash", "collect", "options"}

(***************************************************************************)
(* Schema Deriver: _build_model_for_callable and _ToolDefinition.schema.   *)
(***************************************************************************)
\* annotations.get(parameter_name, Any)
Annotation(p) == IF p.ann = "" THEN "Any" ELSE p.ann

\* fields[parameter_name] = (annotation, default), default ... when there is none
Field(p) ==
  [name |-> p.name, ann |-> Annotation(p), required |-> ~p.hasDefault,
   default |-> p.default]

\* a slip: only *args refused
HasVarPositional(sig) == \E i \in 1..Len(sig) : sig[i].kind = VARP

HasVarArgs(sig) == \E i \in 1..Len(sig) : sig[i].kind \in {VARP, VARK}

\* create_model always returns a class; the registration goes on whether or
\* not the annotations of its fields could be resolved
build_model_for_callable(func) ==
  LET sig == Signature(func) IN
  IF HasVarArgs(sig)
  THEN [ok |-> FALSE, error |-> "TypeError", fields |-> <<>>]
  ELSE [ok |-> TRUE, error |-> "",
        fields |-> [i \in 1..Len(sig) |-> Field(sig[i])]]

FieldNames(fields) == {fields[i].name : i \in 1..Len(fields)}
FieldOf(fields, n) == CHOOSE f \in Range(fields) : f.name = n

\* An annotation given as text is evaluated among the names of
\* model_context_protocol.fastapi, its imports (Any, Awaitable, Callable,
\* Dict) and the builtins: Optional is not among them, and neither is model,
\* a local variable of decorator.
Unresolved(ann) == ann \in {"'Optional[str]'", "'model'"}
Resolve(ann) ==
  CASE ann = "'int'" -> "int"
    [] ann = "'str'" -> "str"
    [] OTHER -> ann

\* the model class is fully defined when every field's annotation resolved
Complete(fields) == \A i \in 1..Len(fields) : ~Unresolved(fields[i].ann)

JsonType(ann) ==
  CASE ann = "str" -> "string"
    [] ann = "int" -> "integer"
    [] ann = "Optional[str]" -> "string|null"
    [] OTHER -> "any"

\* _ToolDefinition.schema: only type, properties and required; of a model
\* that is not Complete, model_json_schema() raises PydanticUserError instead
schema(fields) ==
  [type |-> "object",
   properties |-> [n \in FieldNames(fields) |->
                     [type |-> JsonType(Resolve(FieldOf(fields, n).ann)),
                      hasDefault |-> ~FieldOf(fields, n).required,
                      default |-> FieldOf(fields, n).default]],
   required |-> [i \in 1..Len(SelectSeq(fields, LAMBDA f : f.required)) |->
                   SelectSeq(fields, LAMBDA f : f.required)[i].name]]

(***************************************************************************)
(* A body validated into the tool's model (pydantic, lax mode); the model   *)
(* is Complete, or model_validate raises PydanticUserError.                 *)
(***************************************************************************)
Accepted(v) == [ok |-> TRUE, value |-> v, type |-> ""]
Rejected(v, ty) == [ok |-> FALSE, value |-> v, type |-> ty]

Coerce(ann, v) ==
  CASE ann = "str" ->
         IF v.t = "str" THEN Accepted(v) ELSE Rejected(v, "string_type")
    [] ann = "int" ->
         IF v.t = "int" THEN Accepted(v)
         ELSE IF v.t = "str" /\ v.v \in IntTexts THEN Accepted(JInt(v.v))
         ELSE IF v.t = "str" THEN Rejected(v, "int_parsing")
         ELSE Rejected(v, "int_type")
    [] ann = "Optional[str]" ->
         IF v.t \in {"str", "null"} THEN Accepted(v)
         ELSE Rejected(v, "string_type")
    [] OTHER -> Accepted(v)

\* the errors of the ValidationError: one per field, each naming its field
ValidationErrors(fields, body) ==
  {[type |-> "missing", loc |-> <<f.name>>] :
     f \in {g \in Range(fields) : g.required /\ g.name \notin DOMAIN body}}
  \cup
  {[type |-> Coerce(Resolve(f.ann), body[f.name]).type, loc |-> <<f.name>>] :
     f \in {g \in Range(fields) :
              g.name \in DOMAIN body /\ ~Coerce(Resolve(g.ann), body[g.name]).ok}}

\* payload.model_dump(exclude_unset=True), of a body that validated
model_dump(fields, body) ==
  [n \in FieldNames(fields) \cap DOMAIN body |->
     Coerce(Resolve(FieldOf(fields, n).ann), body[n]).value]

(***************************************************************************)
(* Calling a handler with data as keyword arguments, then its body.        *)
(***************************************************************************)
\* how a call ends: invoked when the body was entered, suspended when the body
\* had awaited an external call before it ended
Return(v) == [kind |-> "return", status |-> 200, detail |-> "", value |-> v,
              invoked |-> TRUE, suspended |-> FALSE]
Raise(k, st, d, inv, sus) ==
  [kind |-> k, status |-> st, detail |-> d, value |-> EmptyDict,
   invoked |-> inv, suspended |-> sus]
NoOutcome == Raise("none", 0, "", FALSE, FALSE)

ParamNames(sig) == {sig[i].name : i \in 1..Len(sig)}

\* the arguments the body sees: the keywords given, and the defaults of the rest
BoundArgs(func, data) ==
  LET sig == Signature(func) IN
  [n \in ParamNames(sig) |->
     IF n \in DOMAIN data THEN data[n]
     ELSE (CHOOSE p \in Range(sig) : p.name = n).default]

\* Python's argument binding: "" when the keywords bind, else the TypeError's text
BindError(func, data) ==
  LET sig == Signature(func) IN
  IF \E p \in Range(sig) : p.kind = PO /\ p.name \in DOMAIN data
  THEN func \o "() got some positional-only arguments passed as keyword arguments"
  ELSE IF \E n \in DOMAIN data : n \notin ParamNames(sig)
  THEN func \o "() got an unexpected keyword argument"
  ELSE IF \E p \in Range(sig) : ~p.hasDefault /\ p.name \notin DOMAIN data
  THEN func \o "() missing required argument"
  ELSE ""

\* src/app.py: list_purchase_requisitions, _get_api_key and _call_sap_api
list_purchase_requisitions(args, env) ==
  IF IntOf(args["top"].v) <= 0 \/ IntOf(args["top"].v) > 200
  THEN Raise("HTTPException", 400,
             "Parameter 'top' must be between 1 and 200 for sandbox usage.",
             TRUE, FALSE)
  ELSE IF ~env.apiKey
  THEN Raise("HTTPException", 500, "The SAP API key is not configured.",
             TRUE, FALSE)
  ELSE IF env.upstream = "503"
  THEN Raise("HTTPException", 503, "SAP API request failed: upstream unavailable",
             TRUE, TRUE)
  ELSE IF env.upstream = "badjson"
  THEN Raise("HTTPException", 502, "SAP API returned invalid JSON", TRUE, TRUE)
  ELSE [Return("content" :> JStr("data")) EXCEPT !.suspended = TRUE]

\* the body of each handler, on its bound arguments
Body(func, args, env) ==
  CASE func \in {"list_purchase_requisitions", "requisitions"} ->
         list_purchase_requisitions(args, env)
    [] func = "unavailable" ->
         Raise("HTTPException", 503, "upstream unavailable", TRUE, FALSE)
    [] func = "broken" ->
         IF args["x"].t = "str" THEN [Return(args) EXCEPT !.suspended = TRUE]
         ELSE Raise("TypeError", 0, "object has no len()", TRUE, TRUE)
    [] func = "crash" -> Raise("RuntimeError", 0, "boom", TRUE, FALSE)
    [] OTHER -> Return(args)

\* result = func(data as keywords); if inspect.isawaitable(result): await it
\* a coroutine function returns an awaitable, and awaiting it runs the body;
\* either way the body's outcome surfaces inside the try block
Invoke(func, data, env) ==
  IF BindError(func, data) # ""
  THEN Raise("TypeError", 0, BindError(func, data), FALSE, FALSE)
  ELSE Body(func, BoundArgs(func, data), env)

(***************************************************************************)
(* Responses.                                                              *)
(***************************************************************************)
Response(st, k, d, errs, res, ts) ==
  [status |-> st, kind |-> k, detail |-> d, errors |-> errs, result |-> res,
   tools |-> ts]

NoResponse == Response(0, "none", "", {}, EmptyDict, <<>>)
NoRequest == [via |-> "", method |-> "", path |-> "", body |-> EmptyDict]
\* called: the handler was called with kwargs; out: how that call ended
NoCall == [called |-> FALSE, func |-> "", kwargs |-> EmptyDict, awaited |-> FALSE,
           out |-> NoOutcome]

(***************************************************************************)
(* Dispatcher: the endpoint call_tool that the decorator builds per tool.  *)
(***************************************************************************)
\* except TypeError as exc: raise HTTPException(status_code=400, detail=str(exc))
ExceptTypeError(out) ==
  IF out.kind = "TypeError"
  THEN [out EXCEPT !.kind = "HTTPException", !.status = 400]
  ELSE out

\* what leaves call_tool: the result it returns, or the exception it raises,
\* an HTTPException with its status_code and detail
Leaves(out) ==
  CASE out.kind = "return" -> Response(0, "return", "", {}, out.value, <<>>)
    [] out.kind = "HTTPException" ->
         Response(out.status, "HTTPException", out.detail, {}, EmptyDict, <<>>)
    [] OTHER -> Response(0, out.kind, out.detail, {}, EmptyDict, <<>>)

\* the try block of call_tool and what follows it: raw is how the call of the
\* handler with data as keywords, awaited when awaitable, ended
call_tool(func, data, raw) ==
  [response |-> Leaves(ExceptTypeError(raw)),
   call |-> [called |-> TRUE, func |-> func, kwargs |-> data,
             awaited |-> (IsAsync(func) /\ raw.invoked), out |-> raw]]

\* an exception that nothing handles: the application answers 500; a router
\* served on its own lets it reach its caller, and there is no response
Escapes(via, exc) ==
  IF via = "app"
  THEN Response(500, "error", "Internal Server Error", {}, EmptyDict, <<>>)
  ELSE Response(0, "exception", exc, {}, EmptyDict, <<>>)

\* A request given to the route of a tool.  The parameter of call_tool is
\* declared payload: model = Body(...) in a module that has from __future__
\* import annotations, so its annotation is the text 'model', and
\* Unresolved("'model'"): decoding the body into payload raises
\* PydanticUserError, whatever the body, before any validation and before
\* call_tool runs.
route_call_tool(via) ==
  [response |-> Escapes(via, "PydanticUserError"), call |-> NoCall]

(***************************************************************************)
(* Tool Registry and discovery.                                            *)
(***************************************************************************)
ToolDefinition(name, description, endpoint, handler, model) ==
  [name |-> name, description |-> description, endpoint |-> endpoint,
   handler |-> handler, model |-> model]

Keys(d) == {d[i].name : i \in 1..Len(d)}

\* self._tools[name] = definition: a new key goes last, a known key keeps its place
Store(d, def) ==
  IF def.name \in Keys(d)
  THEN [i \in 1..Len(d) |-> IF d[i].name = def.name THEN def ELSE d[i]]
  ELSE Append(d, def)

\* f"{self._base_path}{tool.endpoint}"
Endpoint(tool) == base_path \o tool.endpoint

\* one entry of the discovery payload, of a tool whose model is Complete
ToolEntry(tool) ==
  [name |-> tool.name, description |-> tool.description,
   input_schema |-> schema(tool.model),
   endpoint |-> Endpoint(tool)]

\* the list comprehension over self._tools.values(): tool.schema raises
\* PydanticUserError at the first tool whose model is not Complete
list_tools(d) ==
  IF \E i \in 1..Len(d) : ~Complete(d[i].model)
  THEN [raised |-> TRUE, tools |-> <<>>]
  ELSE [raised |-> FALSE, tools |-> [i \in 1..Len(d) |-> ToolEntry(d[i])]]

(***************************************************************************)
(* Transport: routes, include_router, and how a request finds its route.   *)
(***************************************************************************)
Route(method, path, endpoint, func, fields) ==
  [method |-> method, path |-> path, endpoint |-> endpoint, func |-> func,
   fields |-> fields]

RECURSIVE rstrip(_)
\* base_path.rstrip("/")
rstrip(s) ==
  IF Len(s) > 0 /\ SubSeq(s, Len(s), Len(s)) = "/"
  THEN rstrip(SubSeq(s, 1, Len(s) - 1))
  ELSE s

\* app.include_router(router, prefix): the routes the router has now are
\* added to the application under the prefix
include_router(routes, prefix) ==
  [i \in 1..Len(routes) |-> [routes[i] EXCEPT !.path = prefix \o @]]

Min(S) == CHOOSE x \in S : \A y \in S : x <= y

FullMatches(routes, method, path) ==
  {i \in 1..Len(routes) : routes[i].path = path /\ routes[i].method = method}
PathMatches(routes, path) == {i \in 1..Len(routes) : routes[i].path = path}

\* the first route matching path and method serves the request; a path known
\* under another method is 405, an unknown path 404
Serve(via, routes, method, path) ==
  IF FullMatches(routes, method, path) # {}
  THEN LET r == routes[Min(FullMatches(routes, method, path))] IN
       IF r.endpoint = "list_tools"
       THEN [response |-> IF list_tools(tools).raised
                          THEN Escapes(via, "PydanticUserError")
                          ELSE Response(200, "discovery", "", {}, EmptyDict,
                                        list_tools(tools).tools),
             call |-> NoCall]
       ELSE route_call_tool(via)
  ELSE IF PathMatches(routes, path) # {}
  THEN [response |-> Response(405, "error", "Method Not Allowed", {}, EmptyDict, <<>>),
        call |-> NoCall]
  ELSE [response |-> Response(404, "error", "Not Found", {}, EmptyDict, <<>>),
        call |-> NoCall]

(***************************************************************************)
(* Inputs.                                                                 *)
(***************************************************************************)
Threads == 1..NThreads

BasePaths == {"/mcp", "/mcp/", "/api"}
DefaultBasePath == "/mcp"
Names == {"echo", "list_purchase_requisitions"}
Descriptions == {"first", "second"}
RegHandlers == {"echo", "list_purchase_requisitions", "collect", "options"}
DispatchHandlers == {"list_purchase_requisitions", "requisitions", "pair",
                     "legacy", "unavailable", "broken", "crash"}
Methods == {"GET", "POST"}
Envs == [apiKey : BOOLEAN, upstream : {"200", "503", "badjson"}]
ExtraKey == "y"

Doc(func) == func \o " tool"

Dicts(K) == UNION {[S -> Values] : S \in SUBSET K}
\* every body over the declared fields, with and without an undeclared field
Payloads(fields) ==
  Dicts(FieldNames(fields))
  \cup {d @@ (ExtraKey :> JInt("5")) : d \in Dicts(FieldNames(fields))}
ProbeBodies == {EmptyDict, "x" :> JStr("hi")}
NoEnv == [apiKey |-> TRUE, upstream |-> "200"]

Idle == [at |-> "idle", name |-> "", description |-> "", func |-> "", fields |-> <<>>]
NoIter == [active |-> FALSE, pos |-> 0, size |-> 0, acc |-> <<>>]
NoPending == [active |-> FALSE, func |-> "", path |-> "", body |-> EmptyDict,
              kwargs |-> EmptyDict]

(***************************************************************************)
(* FastAPIMCPServer.__init__                                               *)
(***************************************************************************)
InitWith(bp) ==
  /\ base_path = rstrip(bp)
  /\ tools = <<>>
  /\ router = <<Route("GET", "/tools", "list_tools", "", <<>>)>>
  /\ app = include_router(<<Route("GET", "/tools", "list_tools", "", <<>>)>>,
                          rstrip(bp))
  /\ attempts = <<>>
  /\ request = NoRequest
  /\ response = NoResponse
  /\ call = NoCall
  /\ pending = NoPending
  /\ discovered = {}
  /\ pc = [t \in Threads |-> Idle]
  /\ iter = NoIter

Init == \E bp \in BasePaths : InitWith(bp)
\* server = FastAPIMCPServer(app), as src/app.py constructs it
InitDefault == InitWith(DefaultBasePath)

(***************************************************************************)
(* FastAPIMCPServer.tool(name, description)(func), run to completion.      *)
(***************************************************************************)
\* if name in self._tools
DuplicateName(name) == name \in Keys(tools)

ToolRoute(name, func, fields) ==
  Route("POST", "/tools/" \o name, "call_tool", func, fields)

decorator(name, description, func) ==
  IF DuplicateName(name)
  THEN [outcome |-> "ValueError", router |-> router, tools |-> tools]
  ELSE IF ~build_model_for_callable(func).ok
  THEN [outcome |-> "TypeError", router |-> router, tools |-> tools]
  ELSE [outcome |-> "ok",
        router |-> Append(router,
                     ToolRoute(name, func, build_model_for_callable(func).fields)),
        tools |-> Store(tools,
                    ToolDefinition(name, description, "/tools/" \o name, func,
                                   build_model_for_callable(func).fields))]

Attempt(name, description, func, outcome) ==
  [name |-> name, description |-> description, func |-> func, outcome |-> outcome]

Register(name, description, func) ==
  /\ LET r == decorator(name, description, func) IN
       /\ router' = r.router
       /\ tools' = r.tools
       /\ attempts' = Append(attempts, Attempt(name, description, func, r.outcome))
       /\ discovered' = IF r.outcome = "ok" THEN {} ELSE discovered
  /\ request' = NoRequest
  /\ response' = NoResponse
  /\ call' = NoCall
  /\ UNCHANGED <<base_path, app, pending, pc, iter>>

\* any name, description and handler
RegisterAny ==
  /\ Len(attempts) < MaxAttempts
  /\ \E name \in Names, description \in Descriptions, func \in RegHandlers :
       Register(name, description, func)

\* each handler under its own name, as src/app.py registers its tool
RegisterOwn ==
  /\ Len(attempts) < MaxTools
  /\ \E func \in DispatchHandlers : Register(func, Doc(func), func)

(***************************************************************************)
(* Requests.                                                               *)
(***************************************************************************)
Request(via, routes, method, path, body) ==
  /\ request = NoRequest
  /\ \E r \in {Serve(via, routes, method, path)} :
       /\ request' = [via |-> via, method |-> method, path |-> path, body |-> body]
       /\ response' = r.response
       /\ call' = r.call
       /\ discovered' = IF r.response.kind = "discovery"
                        THEN discovered \cup {r.response.tools}
                        ELSE discovered
  /\ UNCHANGED <<base_path, tools, router, app, attempts, pending, pc, iter>>

\* the response is sent: one request in, one response out
Deliver ==
  /\ request # NoRequest
  /\ ~iter.active
  /\ request' = NoRequest
  /\ response' = NoResponse
  /\ call' = NoCall
  /\ UNCHANGED <<base_path, tools, router, app, attempts, pending, discovered,
                 pc, iter>>

AppPaths == {base_path \o "/tools"} \cup {base_path \o "/tools/" \o n : n \in Names}

\* the environment matters to the handler of src/app.py alone
EnvsOf(func) ==
  IF func \in {"list_purchase_requisitions", "requisitions"} THEN Envs
  ELSE {NoEnv}

\* what a handler reads of the environment before its first await
StartEnvs(func) == {env \in EnvsOf(func) : env.upstream = "200"}

\* a request to the host application
AppRequest ==
  \E method \in Methods, path \in AppPaths :
    \E body \in (IF method = "POST" THEN ProbeBodies ELSE {EmptyDict}) :
      Request("app", app, method, path, body)

\* the bodies sent to a tool's route: each field absent or at a value of its
\* parameter's type, with and without an undeclared field; what becomes of
\* the request does not depend on the body
ValueFor(f) == IF f.ann \in {"int", "'int'", "Any"} THEN JInt("5") ELSE JStr("hi")
RouterBodies(fields) ==
  {[n \in S |-> ValueFor(FieldOf(fields, n))] : S \in SUBSET FieldNames(fields)}
  \cup {[n \in S |-> ValueFor(FieldOf(fields, n))] @@ (ExtraKey :> JInt("5")) :
          S \in SUBSET FieldNames(fields)}

\* a request served from the router's own route table
RouterRequest ==
  \E i \in 1..Len(router), method \in Methods :
    \E body \in (IF method = "POST" THEN RouterBodies(router[i].fields)
                 ELSE {EmptyDict}) :
      Request("router", router, method, router[i].path, body)

RouterProbe ==
  \E method \in Methods :
    Request("router", router, method, "/tools/unregistered", EmptyDict)

DirectRequest(path, body) ==
  [via |-> "direct", method |-> "", path |-> path, body |-> body]

\* The endpoint of a tool's route called as a function, on the instance that
\* the tool's model makes of a body: payload = model.model_validate(body),
\* then call_tool(payload) up to the point where it ends or suspends at
\* result = await result.  A body that does not validate raises
\* ValidationError and call_tool is not called.
CallStart ==
  /\ request = NoRequest
  /\ ~pending.active
  /\ \E i \in 1..Len(router) :
       /\ router[i].endpoint = "call_tool"
       /\ Complete(router[i].fields)
       /\ \E body \in Payloads(router[i].fields), env \in StartEnvs(router[i].func) :
            LET func == router[i].func
                errs == ValidationErrors(router[i].fields, body)
                data == model_dump(router[i].fields, body)
                raw == Invoke(func, data, env)
            IN IF errs # {}
               THEN /\ request' = DirectRequest(router[i].path, body)
                    /\ response' = Response(0, "ValidationError", "", errs,
                                            EmptyDict, <<>>)
                    /\ call' = NoCall
                    /\ UNCHANGED pending
               ELSE IF raw.suspended
               THEN /\ pending' = [active |-> TRUE, func |-> func,
                                   path |-> router[i].path, body |-> body,
                                   kwargs |-> data]
                    /\ UNCHANGED <<request, response, call>>
               ELSE /\ request' = DirectRequest(router[i].path, body)
                    /\ response' = call_tool(func, data, raw).response
                    /\ call' = call_tool(func, data, raw).call
                    /\ UNCHANGED pending
  /\ UNCHANGED <<base_path, tools, router, app, attempts, discovered, pc, iter>>

\* the awaited call ends and call_tool resumes after its await
CallResume ==
  /\ pending.active
  /\ request = NoRequest
  /\ \E env \in EnvsOf(pending.func) :
       LET raw == Invoke(pending.func, pending.kwargs, env) IN
       /\ raw.suspended
       /\ request' = DirectRequest(pending.path, pending.body)
       /\ response' = call_tool(pending.func, pending.kwargs, raw).response
       /\ call' = call_tool(pending.func, pending.kwargs, raw).call
  /\ pending' = NoPending
  /\ UNCHANGED <<base_path, tools, router, app, attempts, discovered, pc, iter>>

Next == RegisterAny \/ AppRequest \/ Deliver
Spec == Init /\ [][Next]_vars

NextDispatch ==
  \/ RegisterOwn \/ RouterRequest \/ RouterProbe \/ CallStart \/ CallResume
  \/ Deliver
SpecDispatch == InitDefault /\ [][NextDispatch]_vars

(***************************************************************************)
(* The decorator step by step, for registrations that run in threads while *)
(* requests are served: nothing in the class takes a lock.                 *)
(***************************************************************************)
ConcHandlers == {"echo", "pair", "collect"}

InFlight(at, name, description, func, fields) ==
  [at |-> at, name |-> name, description |-> description, func |-> func,
   fields |-> fields]

\* if name in self._tools: raise ValueError
Check(t, name, description, func) ==
  /\ pc[t].at = "idle"
  /\ IF DuplicateName(name)
     THEN /\ pc' = [pc EXCEPT ![t] = InFlight("failed", name, description, func, <<>>)]
          /\ attempts' = Append(attempts, Attempt(name, description, func, "ValueError"))
     ELSE /\ pc' = [pc EXCEPT ![t] = InFlight("checked", name, description, func, <<>>)]
          /\ UNCHANGED attempts
  /\ UNCHANGED <<base_path, tools, router, app, request, response, call,
                 pending, discovered, iter>>

\* model = self._build_model_for_callable(name, func)
Build(t) ==
  /\ pc[t].at = "checked"
  /\ IF build_model_for_callable(pc[t].func).ok
     THEN /\ pc' = [pc EXCEPT ![t].at = "built",
                              ![t].fields = build_model_for_callable(pc[t].func).fields]
          /\ UNCHANGED attempts
     ELSE /\ pc' = [pc EXCEPT ![t].at = "failed"]
          /\ attempts' = Append(attempts,
                Attempt(pc[t].name, pc[t].description, pc[t].func, "TypeError"))
  /\ UNCHANGED <<base_path, tools, router, app, request, response, call,
                 pending, discovered, iter>>

\* self._router.post(endpoint_path, ...)(call_tool)
Wire(t) ==
  /\ pc[t].at = "built"
  /\ router' = Append(router, ToolRoute(pc[t].name, pc[t].func, pc[t].fields))
  /\ pc' = [pc EXCEPT ![t].at = "wired"]
  /\ UNCHANGED <<base_path, tools, app, attempts, request, response, call,
                 pending, discovered, iter>>

\* self._tools[name] = _ToolDefinition(...)
Save(t) ==
  /\ pc[t].at = "wired"
  /\ tools' = Store(tools,
        ToolDefinition(pc[t].name, pc[t].description, "/tools/" \o pc[t].name,
                       pc[t].func, pc[t].fields))
  /\ pc' = [pc EXCEPT ![t].at = "done"]
  /\ attempts' = Append(attempts,
        Attempt(pc[t].name, pc[t].description, pc[t].func, "ok"))
  /\ discovered' = {}
  /\ UNCHANGED <<base_path, router, app, request, response, call, pending, iter>>

ThreadStart ==
  \E t \in Threads, name \in Names, func \in ConcHandlers :
    Check(t, name, Doc(func), func)
ThreadBuild == \E t \in Threads : Build(t)
ThreadWire == \E t \in Threads : Wire(t)
ThreadSave == \E t \in Threads : Save(t)

\* list_tools begins to iterate self._tools.values()
DiscoverStart ==
  /\ request = NoRequest
  /\ request' = [via |-> "app", method |-> "GET", path |-> base_path \o "/tools",
                 body |-> EmptyDict]
  /\ iter' = [active |-> TRUE, pos |-> 0, size |-> Len(tools), acc |-> <<>>]
  /\ UNCHANGED <<base_path, tools, router, app, attempts, response, call,
                 pending, discovered, pc>>

\* the next step of the iteration: a dict that changed size since the
\* iteration began raises RuntimeError, and the schema of a model that is not
\* Complete raises PydanticUserError; the application answers either with 500
DiscoverNext ==
  /\ iter.active
  /\ IF Len(tools) # iter.size
     THEN /\ response' = Escapes(request.via, "RuntimeError")
          /\ iter' = NoIter
          /\ UNCHANGED discovered
     ELSE IF iter.pos < iter.size /\ ~Complete(tools[iter.pos + 1].model)
     THEN /\ response' = Escapes(request.via, "PydanticUserError")
          /\ iter' = NoIter
          /\ UNCHANGED discovered
     ELSE IF iter.pos < iter.size
     THEN /\ iter' = [iter EXCEPT !.pos = @ + 1,
                                  !.acc = Append(@, ToolEntry(tools[iter.pos + 1]))]
          /\ UNCHANGED <<response, discovered>>
     ELSE /\ response' = Response(200, "discovery", "", {}, EmptyDict, iter.acc)
          /\ discovered' = discovered \cup {iter.acc}
          /\ iter' = NoIter
  /\ UNCHANGED <<base_path, tools, router, app, attempts, request, call,
                 pending, pc>>

\* a POST served from the router's route table while registrations run
ConcPost ==
  \E name \in Names, body \in ProbeBodies :
    Request("router", router, "POST", "/tools/" \o name, body)

NextConc ==
  \/ ThreadStart \/ ThreadBuild \/ ThreadWire \/ ThreadSave
  \/ DiscoverStart \/ DiscoverNext \/ ConcPost \/ Deliver
SpecConc == InitDefault /\ [][NextConc]_vars

(***************************************************************************)
(* Properties.                                                             *)
(***************************************************************************)
OkAttempts == SelectSeq(attempts, LAMBDA a : a.outcome = "ok")
ToolPosts(name) == FullMatches(router, "POST", "/tools/" \o name)
IsVariadic(func) == \E p \in Range(Signature(func)) : p.kind \in {VARP, VARK}

\* the last request was a POST that the router gave to a tool's call_tool
ToolServed ==
  /\ request.via = "router"
  /\ request.method = "POST"
  /\ FullMatches(router, "POST", request.path) # {}
\* the handler of that route
ServedFunc == router[Min(FullMatches(router, "POST", request.path))].func

RequiredNames(func) ==
  {p.name : p \in {q \in Range(Signature(func)) : ~q.hasDefault}}
DeclaredNames(func) == {p.name : p \in Range(Signature(func))}
ParamOf(func, n) == CHOOSE p \in Range(Signature(func)) : p.name = n

\* the first successful registration of a name
FirstOk(name) ==
  CHOOSE k \in 1..Len(attempts) :
    /\ attempts[k].name = name
    /\ attempts[k].outcome = "ok"
    /\ \A j \in 1..(k - 1) :
         ~(attempts[j].name = name /\ attempts[j].outcome = "ok")

\* C1: after any sequence of registrations, a registration under a name that an
\* earlier registration holds was refused with the duplicate-name error; the
\* registry has one tool per name, each with the description, model and
\* handler of the first registration of its name; the router has one POST
\* endpoint per name; and a discovery request made after a refused duplicate
\* is answered with a list that has exactly one entry per registered name,
\* carrying the description and the schema of that name's first registration.
C1_DuplicateRejected ==
  /\ \A i \in 1..Len(attempts) :
       (\E j \in 1..(i - 1) : attempts[j].name = attempts[i].name
                               /\ attempts[j].outcome = "ok")
         => attempts[i].outcome = "ValueError"
  /\ \A i, j \in 1..Len(tools) : tools[i].name = tools[j].name => i = j
  /\ \A i \in 1..Len(tools) :
       \E k \in 1..Len(attempts) :
         /\ attempts[k].name = tools[i].name
         /\ \A j \in 1..(k - 1) : attempts[j].name = tools[i].name
                                   => attempts[j].outcome = "TypeError"
         /\ tools[i].description = attempts[k].description
         /\ tools[i].handler = attempts[k].func
         /\ tools[i].model = build_model_for_callable(attempts[k].func).fields
  /\ \A name \in Names : Cardinality(ToolPosts(name)) <= 1
  /\ (/\ request.via = "app"
      /\ request.method = "GET"
      /\ request.path = base_path \o "/tools"
      /\ \E i \in 1..Len(attempts) : attempts[i].outcome = "ValueError")
       => /\ response.kind = "discovery"
          /\ Len(response.tools) = Len(tools)
          /\ \A i \in 1..Len(tools) :
               \E j \in 1..Len(response.tools) :
                 /\ response.tools[j].name = tools[i].name
                 /\ response.tools[j].description
                      = attempts[FirstOk(tools[i].name)].description
                 /\ response.tools[j].input_schema
                      = schema(build_model_for_callable(
                                 attempts[FirstOk(tools[i].name)].func).fields)

\* C2: a POST to the host application at the advertised endpoint of a
\* registered tool finds that tool's route: it is not answered not-found.
C2_ListedToolsInvocable ==
  \A i \in 1..Len(tools) :
    (/\ request.via = "app"
     /\ request.method = "POST"
     /\ request.path = Endpoint(tools[i]))
      => response.status # 404

\* the type that the text of an annotation denotes in the handler's module
Intended(ann) ==
  CASE ann = "'Optional[str]'" -> "Optional[str]"
    [] OTHER -> Resolve(ann)
\* the JSON values that are of an annotation's type
AnnotationAccepts(ann, v) ==
  CASE Intended(ann) = "str" -> v.t = "str"
    [] Intended(ann) = "int" -> v.t = "int"
    [] Intended(ann) = "Optional[str]" -> v.t \in {"str", "null"}
    [] OTHER -> TRUE
WellTyped(func, body) ==
  \A n \in DeclaredNames(func) \cap DOMAIN body :
    AnnotationAccepts(ParamOf(func, n).ann, body[n])
KeywordCallable(func) == \A p \in Range(Signature(func)) : p.kind # PO
\* a body with every required field, each declared field of its annotation's type
ValidBody(func, body) ==
  RequiredNames(func) \subseteq DOMAIN body /\ WellTyped(func, body)
\* the body restricted to the declared parameters
Restricted(func, body) ==
  [n \in DOMAIN body \cap DeclaredNames(func) |-> body[n]]
\* how the handler of the served route ends when called with the body's
\* declared fields as keywords, in each environment
HandlerOutcomes ==
  {Invoke(ServedFunc, Restricted(ServedFunc, request.body), env) :
     env \in EnvsOf(ServedFunc)}

\* C3: a request to a tool's endpoint whose body has every required field, of
\* its annotation's type, reaches the handler, whatever optional fields it
\* has; one whose body lacks a required field fails with a validation error
\* that names each missing field, and the handler is not invoked.
C3_RequiredAndOptional ==
  ToolServed =>
    /\ (ValidBody(ServedFunc, request.body) /\ KeywordCallable(ServedFunc))
         => call.out.invoked
    /\ ~(RequiredNames(ServedFunc) \subseteq DOMAIN request.body) =>
         /\ \A n \in RequiredNames(ServedFunc) \ DOMAIN request.body :
              \E e \in response.errors :
                e.type = "missing" /\ e.loc[Len(e.loc)] = n
         /\ ~call.called

\* C4: a request to a tool's endpoint whose body has every required field, of
\* its annotation's type, is not rejected for the undeclared fields it
\* holds: the handler is called, and its keyword arguments are the body
\* restricted to the declared parameters, an absent one left out and a null
\* passed as null.
C4_KeywordArguments ==
  (ToolServed /\ ValidBody(ServedFunc, request.body)) =>
    /\ call.called
    /\ call.kwargs = Restricted(ServedFunc, request.body)

\* C5: a registration of a handler with a variadic parameter fails, and that
\* call leaves the registry, the router's routes and the application's
\* routes as they were.
C5_VariadicRefused ==
  [][(/\ Len(attempts') = Len(attempts) + 1
      /\ IsVariadic(attempts'[Len(attempts')].func))
       => /\ attempts'[Len(attempts')].outcome # "ok"
          /\ UNCHANGED <<tools, router, app>>]_vars

\* a variadic handler was refused after a tool had been registered, under a
\* free name, and the registry still holds that one tool
C5_Witness ==
  /\ Len(attempts) = 2
  /\ attempts[1].outcome = "ok"
  /\ attempts[2].name # attempts[1].name
  /\ IsVariadic(attempts[2].func)
  /\ attempts[2].outcome = "TypeError"
  /\ Len(tools) = 1
  /\ tools[1].name = attempts[1].name
  /\ Len(router) = 2

\* C6: a request to a tool's endpoint, with a body that its handler answers
\* by raising HTTPException, is answered with that exception's status and
\* detail.
C6_HandlerErrorPropagated ==
  (/\ ToolServed
   /\ ValidBody(ServedFunc, request.body)
   /\ \A o \in HandlerOutcomes : o.kind = "HTTPException")
    => \E o \in HandlerOutcomes :
         response.status = o.status /\ response.detail = o.detail

\* the tools that discovery is to list: one per successful registration, in
\* that order
Expected ==
  [i \in 1..Len(OkAttempts) |->
     [name |-> OkAttempts[i].name,
      description |-> OkAttempts[i].description,
      input_schema |-> schema(build_model_for_callable(OkAttempts[i].func).fields),
      endpoint |-> base_path \o "/tools/" \o OkAttempts[i].name]]

\* C7: a discovery request is answered with the successfully registered tools
\* in registration order, each with its name, description, input schema and
\* the server's prefix followed by /tools/{name}; and all discovery responses
\* since the last registration are the same.
C7_DiscoveryFromRegistry ==
  /\ (/\ request.via = "app"
      /\ request.method = "GET"
      /\ request.path = base_path \o "/tools")
       => (response.kind = "discovery" /\ response.tools = Expected)
  /\ \A d \in discovered : d = Expected

\* C8: a request to a tool's endpoint, with a body that its handler answers
\* by raising TypeError, when called or when awaited, is answered 400 with
\* the error's message, and no result is returned.
C8_TypeErrorIs400 ==
  (/\ ToolServed
   /\ ValidBody(ServedFunc, request.body)
   /\ \A o \in HandlerOutcomes : o.kind = "TypeError")
    => /\ response.status = 400
       /\ \E o \in HandlerOutcomes : response.detail = o.detail
       /\ response.result = EmptyDict

\* call_tool called itself, past the route that cannot decode its payload:
\* the keywords are the declared fields the body holds; an HTTPException of
\* the handler leaves call_tool as it is, before or after the await; a
\* TypeError leaves it as HTTPException 400 with the error's message.
CallToolBody ==
  (request.via = "direct" /\ call.called) =>
    /\ DOMAIN call.kwargs = DOMAIN request.body \cap DeclaredNames(call.func)
    /\ call.out.kind = "HTTPException" =>
         /\ response.kind = "HTTPException"
         /\ response.status = call.out.status
         /\ response.detail = call.out.detail
    /\ call.out.kind = "TypeError" =>
         /\ response.kind = "HTTPException"
         /\ response.status = 400
         /\ response.detail = call.out.detail

\* C9: in every state a name is listed in the registry exactly when a POST
\* endpoint is wired for it, and a discovery request is never answered with
\* an error.
C9_NoPartialRegistration ==
  /\ \A name \in Names : (name \in Keys(tools)) <=> (ToolPosts(name) # {})
  /\ (request.method = "GET" /\ response # NoResponse) => response.status = 200

\* C10: of two finished registrations of one name, by handlers the schema
\* deriver accepts, exactly one succeeded, one endpoint is wired for the
\* name, and that endpoint invokes the handler of the listed descriptor.
C10_OneWinner ==
  \A t1, t2 \in Threads :
    (/\ t1 # t2
     /\ pc[t1].at \in {"done", "failed"}
     /\ pc[t2].at \in {"done", "failed"}
     /\ pc[t1].name = pc[t2].name
     /\ ~IsVariadic(pc[t1].func)
     /\ ~IsVariadic(pc[t2].func))
      => /\ (pc[t1].at = "done") # (pc[t2].at = "done")
         /\ Cardinality(ToolPosts(pc[t1].name)) = 1
         /\ \A i \in 1..Len(tools) :
              tools[i].name = pc[t1].name =>
                router[Min(ToolPosts(pc[t1].name))].func = tools[i].handler

====
